---- MODULE Spec2Model ----
(***************************************************************************)
(* Model of src/fetch_aspects.py: the aspect classifier                    *)
(* (calculate_aspects), the six motif detectors, and the pattern scorer    *)
(* (flag_out_of_sign, add_pattern_strength_scores), run in the order of    *)
(* fetch_weekly_aspects for one date.                                      *)
(*                                                                         *)
(* Numbers.  Python floats are modelled by exact fixed-point integers:     *)
(*   - angles, longitudes, orbs and speeds in units of 1/10000 degree      *)
(*     (speeds per day), see Deg;                                          *)
(*   - values rounded with round(x, 3) in thousandths ("milli");           *)
(*   - body weights in hundredths.                                         *)
(* round(x, 3) is modelled as round-half-to-even on the exact value.  On   *)
(* an exact decimal tie Python rounds the binary float, whose error        *)
(* decides the direction; the model's value may then differ by one         *)
(* thousandth.  Away from ties the model agrees with the code.             *)
(***************************************************************************)
EXTENDS Integers, Sequences, FiniteSets, TLC

(***************************************************************************)
(* Fixed-point helpers                                                     *)
(***************************************************************************)
\* d whole degrees in model units (1/10000 degree)
Deg(d) == d * 10000

Abs(x) == IF x < 0 THEN -x ELSE x

Max(a, b) == IF a >= b THEN a ELSE b

Min(a, b) == IF a <= b THEN a ELSE b

\* round-half-to-even of num/den (den > 0, num >= 0), as Python's round()
RoundDiv(num, den) ==
    LET q == num \div den
        r == num % den
    IN  IF 2 * r < den THEN q
        ELSE IF 2 * r > den THEN q + 1
        ELSE IF q % 2 = 0 THEN q ELSE q + 1

\* round(x, 3) of an angle x >= 0 given in model units; result in millidegrees
Round3(x) == RoundDiv(x, 10)

(***************************************************************************)
(* Configuration tables                                                    *)
(***************************************************************************)
ASPECT_TOLERANCE_DEG == 8

SIGN_NAMES ==
    <<"Aries", "Taurus", "Gemini", "Cancer", "Leo", "Virgo",
      "Libra", "Scorpio", "Sagittarius", "Capricorn", "Aquarius", "Pisces">>

\* the keys of planet_names with INCLUDE_SUN_MOON = True
PlanetNames ==
    {"mercury", "venus", "mars", "jupiter", "saturn", "uranus", "neptune",
     "sun", "moon"}

\* ASPECT_DEFS in dict (insertion) order: name and ideal angle in degrees
ASPECT_DEFS ==
    << [name |-> "conjunction",    ideal |-> 0],
       [name |-> "semi-sextile",   ideal |-> 30],
       [name |-> "semi-square",    ideal |-> 45],
       [name |-> "sextile",        ideal |-> 60],
       [name |-> "quintile",       ideal |-> 72],
       [name |-> "square",         ideal |-> 90],
       [name |-> "trine",          ideal |-> 120],
       [name |-> "sesquiquadrate", ideal |-> 135],
       [name |-> "quincunx",       ideal |-> 150],
       [name |-> "opposition",     ideal |-> 180] >>

AspectNames == {ASPECT_DEFS[k].name : k \in 1..Len(ASPECT_DEFS)}

\* per-aspect orb limits in degrees
ORBS ==
    [n \in AspectNames |->
        CASE n = "conjunction"    -> 8
          [] n = "opposition"     -> 8
          [] n = "trine"          -> 6
          [] n = "square"         -> 6
          [] n = "sextile"        -> 4
          [] n = "quincunx"       -> 3
          [] n = "quintile"       -> 2
          [] n = "semi-square"    -> 2
          [] n = "semi-sextile"   -> 2
          [] n = "sesquiquadrate" -> 2]

\* ORBS.get(aspect_name, ASPECT_TOLERANCE_DEG), in degrees
OrbLimit(aspect_name) ==
    IF aspect_name \in DOMAIN ORBS THEN ORBS[aspect_name]
    ELSE ASPECT_TOLERANCE_DEG

\* BODY_WEIGHT in hundredths
BODY_WEIGHT ==
    [n \in PlanetNames |->
        CASE n \in {"sun", "moon"}                -> 125
          [] n \in {"mercury", "venus"}           -> 100
          [] n \in {"mars", "jupiter", "saturn"}  -> 105
          [] n \in {"uranus", "neptune"}          -> 95]

\* str.lower() on the body names the model uses
Lower(name) ==
    CASE name = "Sun"  -> "sun"
      [] name = "Moon" -> "moon"
      [] OTHER         -> name

\* body_weight(name), in hundredths
body_weight(name) ==
    IF Lower(name) \in DOMAIN BODY_WEIGHT THEN BODY_WEIGHT[Lower(name)]
    ELSE 100

\* Python's string order on the body names the model uses (sorted())
NameOrder ==
    <<"Moon", "Sun", "jupiter", "mars", "mercury", "moon", "neptune",
      "saturn", "sun", "uranus", "venus">>

Rank(name) == CHOOSE k \in 1..Len(NameOrder) : NameOrder[k] = name

\* sorted(S) for a set S of body names
SortedNames(S) == SelectSeq(NameOrder, LAMBDA n : n \in S)

(***************************************************************************)
(* Math helpers                                                            *)
(***************************************************************************)
\* norm180(angle)
norm180(angle) ==
    LET a == angle % Deg(360)
    IN  IF a <= Deg(180) THEN a ELSE Deg(360) - a

\* angular_distance(a, b)
angular_distance(a, b) == norm180(Abs(a - b))

(***************************************************************************)
(* Core: calculate_aspects                                                 *)
(***************************************************************************)
\* Marker for Python's None
None == "None"

\* PickBest with the orb limit itself excluded (orb < orb_limit)
RECURSIVE PickBestStrict(_, _, _, _)
PickBestStrict(k, angle, best, best_orb) ==
    IF k > Len(ASPECT_DEFS) THEN best
    ELSE LET orb_limit == Deg(OrbLimit(ASPECT_DEFS[k].name))
             orb == Abs(angle - Deg(ASPECT_DEFS[k].ideal))
         IN  IF orb < orb_limit /\ orb < best_orb
             THEN PickBestStrict(k + 1, angle, k, orb)
             ELSE PickBestStrict(k + 1, angle, best, best_orb)

\* The loop "for aspect_name, ideal in ASPECT_DEFS.items()" from definition k
\* on: best is the index of the definition kept so far (0 for None),
\* best_orb its orb.  Returns the index finally kept.
RECURSIVE PickBest(_, _, _, _)
PickBest(k, angle, best, best_orb) ==
    IF k > Len(ASPECT_DEFS) THEN best
    ELSE LET orb_limit == Deg(OrbLimit(ASPECT_DEFS[k].name))
             orb == Abs(angle - Deg(ASPECT_DEFS[k].ideal))
         IN  IF orb <= orb_limit /\ orb < best_orb
             THEN PickBest(k + 1, angle, k, orb)
             ELSE PickBest(k + 1, angle, best, best_orb)

\* "pick the single closest aspect for this pair": index into ASPECT_DEFS or 0
BestAspect(angle) == PickBest(1, angle, 0, Deg(999))

\* ExpectedAspect with quincunx expected five signs apart (5 and 7)
ExpectedAspectWithQuincunx(diff_signs) ==
    IF diff_signs = 0 THEN "conjunction"
    ELSE IF diff_signs \in {2, 10} THEN "sextile"
    ELSE IF diff_signs \in {3, 9} THEN "square"
    ELSE IF diff_signs \in {4, 8} THEN "trine"
    ELSE IF diff_signs \in {5, 7} THEN "quincunx"
    ELSE IF diff_signs = 6 THEN "opposition"
    ELSE None

\* ExpectedAspect without the differences past 6 (10, 9 and 8)
ExpectedAspectNoWrap(diff_signs) ==
    IF diff_signs = 0 THEN "conjunction"
    ELSE IF diff_signs = 2 THEN "sextile"
    ELSE IF diff_signs = 3 THEN "square"
    ELSE IF diff_signs = 4 THEN "trine"
    ELSE IF diff_signs = 6 THEN "opposition"
    ELSE None

\* expected aspect name from the sign-index difference
ExpectedAspect(diff_signs) ==
    IF diff_signs = 0 THEN "conjunction"
    ELSE IF diff_signs \in {2, 10} THEN "sextile"
    ELSE IF diff_signs \in {3, 9} THEN "square"
    ELSE IF diff_signs \in {4, 8} THEN "trine"
    ELSE IF diff_signs = 6 THEN "opposition"
    ELSE None

\* int(lon // 30)
SignIdx(lon) == lon \div Deg(30)

\* Phase with the test of the speeds reversed: the slower body is projected
PhaseSlowerProjected(p1, p2, positions, speeds, ideal, orb) ==
    LET faster == IF Abs(speeds[p1]) < Abs(speeds[p2]) THEN p1 ELSE p2
        slower == IF Abs(speeds[p1]) < Abs(speeds[p2]) THEN p2 ELSE p1
        projected == (positions[faster] + speeds[faster]) % Deg(360)
        future_angle == angular_distance(projected, positions[slower])
    IN  IF Abs(future_angle - ideal) < orb THEN "applying" ELSE "separating"

\* phase of an aspect: project the faster body by speeds[faster]
Phase(p1, p2, positions, speeds, ideal, orb) ==
    LET faster == IF Abs(speeds[p1]) > Abs(speeds[p2]) THEN p1 ELSE p2
        slower == IF Abs(speeds[p1]) > Abs(speeds[p2]) THEN p2 ELSE p1
        projected == (positions[faster] + speeds[faster]) % Deg(360)
        future_angle == angular_distance(projected, positions[slower])
    IN  IF Abs(future_angle - ideal) < orb THEN "applying" ELSE "separating"

\* ImportanceScore with the weight of the first body alone (w = w1)
ImportanceScoreFirstWeight(orb, limit, w1, w2) ==
    LET tnum == Max(0, limit - orb)
    IN  IF tnum * w1 >= limit * 100 THEN 1000
        ELSE RoundDiv(tnum * w1 * 10, limit)

\* round(min(1.0, tightness * w), 3) in thousandths, where
\* tightness = max(0, 1 - orb/limit) and w = (w1 + w2) / 2 (w1, w2 hundredths)
ImportanceScore(orb, limit, w1, w2) ==
    LET tnum == Max(0, limit - orb)          \* tightness = tnum / limit
        wsum == w1 + w2                      \* w = wsum / 200
    IN  IF tnum * wsum >= limit * 200 THEN 1000
        ELSE RoundDiv(tnum * wsum * 5, limit)

\* The aspect dict appended for the pair (p1, p2) whose best definition is k
AspectDict(p1, p2, k, positions, speeds) ==
    LET lon1 == positions[p1]
        lon2 == positions[p2]
        angle == angular_distance(lon1, lon2)
        aspect_name == ASPECT_DEFS[k].name
        ideal == Deg(ASPECT_DEFS[k].ideal)
        orb == Abs(angle - ideal)
        sign_idx1 == SignIdx(lon1)
        sign_idx2 == SignIdx(lon2)
        diff_signs == Abs(sign_idx1 - sign_idx2) % 12
        expected == ExpectedAspect(diff_signs)
    IN  [ body1 |-> p1,
          body2 |-> p2,
          aspect_name |-> aspect_name,
          ideal_angle_deg |-> ASPECT_DEFS[k].ideal,
          angle_measured_deg |-> Round3(angle),
          orb_deg |-> Round3(orb),
          phase |-> Phase(p1, p2, positions, speeds, ideal, orb),
          out_of_sign |-> (expected # aspect_name),
          sign1 |-> SIGN_NAMES[sign_idx1 + 1],
          sign2 |-> SIGN_NAMES[sign_idx2 + 1],
          importance_score |->
              ImportanceScore(orb, Deg(OrbLimit(aspect_name)),
                              body_weight(p1), body_weight(p2)) ]

\* The body of the pair loop for names[i], names[j]: the list of edges (zero
\* or one) the pair appends to aspects
PairAspects(p1, p2, positions, speeds) ==
    LET best == BestAspect(angular_distance(positions[p1], positions[p2]))
    IN  IF best # 0 THEN << AspectDict(p1, p2, best, positions, speeds) >>
        ELSE << >>

\* The double loop over i < j of the sorted names, from (i, j) on
RECURSIVE PairLoop(_, _, _, _, _)
PairLoop(i, j, names, positions, speeds) ==
    IF i > Len(names) THEN << >>
    ELSE IF j > Len(names) THEN PairLoop(i + 1, i + 2, names, positions, speeds)
    ELSE PairAspects(names[i], names[j], positions, speeds)
         \o PairLoop(i, j + 1, names, positions, speeds)

\* calculate_aspects, given the positions and speeds the ephemeris supplied
calculate_aspects(positions, speeds) ==
    PairLoop(1, 2, SortedNames(DOMAIN positions), positions, speeds)

(***************************************************************************)
(* Pattern detection helpers                                               *)
(***************************************************************************)
\* has_aspect(aspects, a, b, aspect_name): orderless linear scan
has_aspect(aspects, a, b, aspect_name) ==
    \E x \in DOMAIN aspects :
        /\ {aspects[x].body1, aspects[x].body2} = {a, b}
        /\ aspects[x].aspect_name = aspect_name

\* sorted(list) of a list of distinct body names (every caller passes
\* distinct bodies)
Sorted(list) == SortedNames({list[x] : x \in DOMAIN list})

\* edge(aspect_name, a, b): bodies sorted
edge(aspect_name, a, b) ==
    LET xy == Sorted(<<a, b>>)
    IN  [body1 |-> xy[1], body2 |-> xy[2], aspect_name |-> aspect_name]

\* unique_fingerprint(members, pattern_type)
unique_fingerprint(members, pattern_type) == <<pattern_type, Sorted(members)>>

\* bodies_from(aspects): the sorted list of the bodies of all edges
bodies_from(aspects) ==
    SortedNames({aspects[x].body1 : x \in DOMAIN aspects}
                \cup {aspects[x].body2 : x \in DOMAIN aspects})

\* The index triples i < j < k <= n in loop order, from (i, j, k) on
RECURSIVE Triples(_, _, _, _)
Triples(i, j, k, n) ==
    IF i > n THEN << >>
    ELSE IF j > n THEN Triples(i + 1, i + 2, i + 3, n)
    ELSE IF k > n THEN Triples(i, j + 1, j + 2, n)
    ELSE << <<i, j, k>> >> \o Triples(i, j, k + 1, n)

\* The index quadruples i < j < k < m <= n in loop order, from (i, j, k, m) on
RECURSIVE Quads(_, _, _, _, _)
Quads(i, j, k, m, n) ==
    IF i > n THEN << >>
    ELSE IF j > n THEN Quads(i + 1, i + 2, i + 3, i + 4, n)
    ELSE IF k > n THEN Quads(i, j + 1, j + 2, j + 3, n)
    ELSE IF m > n THEN Quads(i, j, k + 1, k + 2, n)
    ELSE << <<i, j, k, m>> >> \o Quads(i, j, k, m + 1, n)

\* "patterns, seen = [], set()"
NoPatterns == [patterns |-> << >>, seen |-> {}]

\* "seen.add(fp); patterns.append(pat)"
Emit(acc, fp, pat) ==
    [patterns |-> Append(acc.patterns, pat), seen |-> acc.seen \cup {fp}]

\* EmitOnce without the test of seen
EmitAlways(acc, fp, pat) == Emit(acc, fp, pat)

\* "if fp in seen: continue", else emit
EmitOnce(acc, fp, pat) == IF fp \in acc.seen THEN acc ELSE Emit(acc, fp, pat)

(***************************************************************************)
(* Individual pattern detectors.  Each takes the body list b the code      *)
(* obtains from bodies_from(aspects), so that the enumeration order is     *)
(* explicit.  pattern_score is in hundredths.                              *)
(***************************************************************************)
\* YodTriplets without the third triplet (a2, apex, a1): the first is tried
\* again in its place
YodTripletsTwo(b) ==
    LET T == Triples(1, 2, 3, Len(b))
    IN  [x \in 1..(3 * Len(T)) |->
            LET t == T[((x - 1) \div 3) + 1]
                a1 == b[t[1]]
                a2 == b[t[2]]
                apex == b[t[3]]
            IN  CASE (x - 1) % 3 = 1 -> <<a1, apex, a2>>
                  [] OTHER           -> <<a1, a2, apex>>]

\* the role triplets tried for every i < j < k, in loop order
YodTriplets(b) ==
    LET T == Triples(1, 2, 3, Len(b))
    IN  [x \in 1..(3 * Len(T)) |->
            LET t == T[((x - 1) \div 3) + 1]
                a1 == b[t[1]]
                a2 == b[t[2]]
                apex == b[t[3]]
            IN  CASE (x - 1) % 3 = 0 -> <<a1, a2, apex>>
                  [] (x - 1) % 3 = 1 -> <<a1, apex, a2>>
                  [] OTHER           -> <<a2, apex, a1>>]

YodMatch(aspects, A, B, C) ==
    /\ has_aspect(aspects, A, B, "sextile")
    /\ has_aspect(aspects, A, C, "quincunx")
    /\ has_aspect(aspects, B, C, "quincunx")

YodPattern(A, B, C) ==
    [ pattern_type |-> "Yod",
      members |-> Sorted(<<A, B, C>>),
      edges |-> << edge("sextile", A, B), edge("quincunx", A, C),
                   edge("quincunx", B, C) >>,
      pattern_score |-> 80 ]

RECURSIVE YodLoop(_, _, _, _)
YodLoop(x, cands, aspects, acc) ==
    IF x > Len(cands) THEN acc
    ELSE LET A == cands[x][1]
             B == cands[x][2]
             C == cands[x][3]
         IN  IF YodMatch(aspects, A, B, C)
             THEN YodLoop(x + 1, cands, aspects,
                          EmitOnce(acc, unique_fingerprint(<<A, B, C>>, "Yod"),
                                   YodPattern(A, B, C)))
             ELSE YodLoop(x + 1, cands, aspects, acc)

detect_yods_in(b, aspects) ==
    YodLoop(1, YodTriplets(b), aspects, NoPatterns).patterns

detect_yods(aspects) == detect_yods_in(bodies_from(aspects), aspects)

\* the role permutations tried for every i < j < k, in loop order
TSquarePerms(b) ==
    LET T == Triples(1, 2, 3, Len(b))
    IN  [x \in 1..(3 * Len(T)) |->
            LET t == T[((x - 1) \div 3) + 1]
                A == b[t[1]]
                B == b[t[2]]
                C == b[t[3]]
            IN  CASE (x - 1) % 3 = 0 -> <<A, B, C>>
                  [] (x - 1) % 3 = 1 -> <<A, C, B>>
                  [] OTHER           -> <<B, C, A>>]

TSquareMatch(aspects, X, Y, Z) ==
    /\ has_aspect(aspects, X, Y, "opposition")
    /\ has_aspect(aspects, X, Z, "square")
    /\ has_aspect(aspects, Y, Z, "square")

TSquarePattern(X, Y, Z) ==
    [ pattern_type |-> "T-Square",
      members |-> Sorted(<<X, Y, Z>>),
      edges |-> << edge("opposition", X, Y), edge("square", X, Z),
                   edge("square", Y, Z) >>,
      pattern_score |-> 85 ]

RECURSIVE TSquareLoop(_, _, _, _)
TSquareLoop(x, cands, aspects, acc) ==
    IF x > Len(cands) THEN acc
    ELSE LET X == cands[x][1]
             Y == cands[x][2]
             Z == cands[x][3]
         IN  IF TSquareMatch(aspects, X, Y, Z)
             THEN TSquareLoop(x + 1, cands, aspects,
                      EmitOnce(acc, unique_fingerprint(<<X, Y, Z>>, "T-Square"),
                               TSquarePattern(X, Y, Z)))
             ELSE TSquareLoop(x + 1, cands, aspects, acc)

detect_tsquares_in(b, aspects) ==
    TSquareLoop(1, TSquarePerms(b), aspects, NoPatterns).patterns

detect_tsquares(aspects) == detect_tsquares_in(bodies_from(aspects), aspects)

GrandTrineMatch(aspects, A, B, C) ==
    /\ has_aspect(aspects, A, B, "trine")
    /\ has_aspect(aspects, A, C, "trine")
    /\ has_aspect(aspects, B, C, "trine")

GrandTrinePattern(A, B, C) ==
    [ pattern_type |-> "Grand Trine",
      members |-> Sorted(<<A, B, C>>),
      edges |-> << edge("trine", A, B), edge("trine", A, C),
                   edge("trine", B, C) >>,
      pattern_score |-> 80 ]

RECURSIVE GrandTrineLoop(_, _, _, _, _)
GrandTrineLoop(x, T, b, aspects, acc) ==
    IF x > Len(T) THEN acc
    ELSE LET A == b[T[x][1]]
             B == b[T[x][2]]
             C == b[T[x][3]]
         IN  IF GrandTrineMatch(aspects, A, B, C)
             THEN GrandTrineLoop(x + 1, T, b, aspects,
                      EmitOnce(acc,
                               unique_fingerprint(<<A, B, C>>, "Grand Trine"),
                               GrandTrinePattern(A, B, C)))
             ELSE GrandTrineLoop(x + 1, T, b, aspects, acc)

detect_grand_trines_in(b, aspects) ==
    GrandTrineLoop(1, Triples(1, 2, 3, Len(b)), b, aspects, NoPatterns).patterns

detect_grand_trines(aspects) ==
    detect_grand_trines_in(bodies_from(aspects), aspects)

\* the Kite whose opposed vertex is O and whose sextile vertices are S1, S2
KitePattern(A, B, C, d, O, S1, S2) ==
    [ pattern_type |-> "Kite",
      members |-> Sorted(<<A, B, C, d>>),
      edges |-> << edge("trine", A, B), edge("trine", A, C),
                   edge("trine", B, C), edge("opposition", d, O),
                   edge("sextile", d, S1), edge("sextile", d, S2) >>,
      pattern_score |-> 86 ]

KiteMatch(aspects, d, O, S1, S2) ==
    /\ has_aspect(aspects, d, O, "opposition")
    /\ has_aspect(aspects, d, S1, "sextile")
    /\ has_aspect(aspects, d, S2, "sextile")

\* The body of "for d in b" for one d outside (A, B, C): the three tests in
\* order; a test that matches an already seen fingerprint ends the body
\* ("continue").
KiteBody(A, B, C, d, aspects, acc) ==
    LET fp == unique_fingerprint(Sorted(<<A, B, C, d>>), "Kite")
        m1 == KiteMatch(aspects, d, A, B, C)
        m2 == KiteMatch(aspects, d, B, A, C)
        m3 == KiteMatch(aspects, d, C, A, B)
        acc1 == IF m1 THEN Emit(acc, fp, KitePattern(A, B, C, d, A, B, C))
                ELSE acc
        acc2 == IF m2 THEN Emit(acc1, fp, KitePattern(A, B, C, d, B, A, C))
                ELSE acc1
        acc3 == IF m3 THEN Emit(acc2, fp, KitePattern(A, B, C, d, C, A, B))
                ELSE acc2
    IN  IF m1 /\ fp \in acc.seen THEN acc
        ELSE IF m2 /\ fp \in acc1.seen THEN acc1
        ELSE IF m3 /\ fp \in acc2.seen THEN acc2
        ELSE acc3

\* "for d in b", from position y on
RECURSIVE KiteDLoop(_, _, _, _, _, _, _)
KiteDLoop(y, A, B, C, b, aspects, acc) ==
    IF y > Len(b) THEN acc
    ELSE IF b[y] \in {A, B, C}
         THEN KiteDLoop(y + 1, A, B, C, b, aspects, acc)
         ELSE KiteDLoop(y + 1, A, B, C, b, aspects,
                        KiteBody(A, B, C, b[y], aspects, acc))

RECURSIVE KiteLoop(_, _, _, _, _)
KiteLoop(x, T, b, aspects, acc) ==
    IF x > Len(T) THEN acc
    ELSE LET A == b[T[x][1]]
             B == b[T[x][2]]
             C == b[T[x][3]]
         IN  IF GrandTrineMatch(aspects, A, B, C)
             THEN KiteLoop(x + 1, T, b, aspects,
                           KiteDLoop(1, A, B, C, b, aspects, acc))
             ELSE KiteLoop(x + 1, T, b, aspects, acc)

detect_kites_in(b, aspects) ==
    KiteLoop(1, Triples(1, 2, 3, Len(b)), b, aspects, NoPatterns).patterns

detect_kites(aspects) == detect_kites_in(bodies_from(aspects), aspects)

\* the one role assignment tested for A, B, C, D = b[i], b[j], b[k], b[m]
MysticRectangleMatch(aspects, A, B, C, D) ==
    /\ has_aspect(aspects, A, B, "opposition")
    /\ has_aspect(aspects, C, D, "opposition")
    /\ has_aspect(aspects, A, C, "sextile")
    /\ has_aspect(aspects, A, D, "sextile")
    /\ has_aspect(aspects, B, C, "sextile")
    /\ has_aspect(aspects, B, D, "sextile")

MysticRectanglePattern(A, B, C, D) ==
    [ pattern_type |-> "Mystic Rectangle",
      members |-> Sorted(<<A, B, C, D>>),
      edges |-> << edge("opposition", A, B), edge("opposition", C, D),
                   edge("sextile", A, C), edge("sextile", A, D),
                   edge("sextile", B, C), edge("sextile", B, D) >>,
      pattern_score |-> 84 ]

RECURSIVE MysticRectangleLoop(_, _, _, _, _)
MysticRectangleLoop(x, Q, b, aspects, acc) ==
    IF x > Len(Q) THEN acc
    ELSE LET A == b[Q[x][1]]
             B == b[Q[x][2]]
             C == b[Q[x][3]]
             D == b[Q[x][4]]
         IN  IF MysticRectangleMatch(aspects, A, B, C, D)
             THEN MysticRectangleLoop(x + 1, Q, b, aspects,
                      EmitOnce(acc,
                               unique_fingerprint(Sorted(<<A, B, C, D>>),
                                                  "Mystic Rectangle"),
                               MysticRectanglePattern(A, B, C, D)))
             ELSE MysticRectangleLoop(x + 1, Q, b, aspects, acc)

detect_mystic_rectangles_in(b, aspects) ==
    MysticRectangleLoop(1, Quads(1, 2, 3, 4, Len(b)), b, aspects,
                        NoPatterns).patterns

detect_mystic_rectangles(aspects) ==
    detect_mystic_rectangles_in(bodies_from(aspects), aspects)

\* GrandCrossPairings with the tuples of the split {A, D}, {B, C} replaced
\* by tuples of the split {A, C}, {B, D}
GrandCrossPairingsTwo(A, B, C, D) ==
    << <<A, C, B, D>>, <<A, B, C, D>>, <<A, C, B, D>>, <<B, D, A, C>> >>

\* "oppositions": the four role tuples (X, Y, U, V) tried for A, B, C, D
GrandCrossPairings(A, B, C, D) ==
    << <<A, C, B, D>>, <<A, B, C, D>>, <<A, D, B, C>>, <<B, C, A, D>> >>

\* the role tuples tried for every i < j < k < m, in loop order
GrandCrossCands(b) ==
    LET Q == Quads(1, 2, 3, 4, Len(b))
    IN  [x \in 1..(4 * Len(Q)) |->
            LET q == Q[((x - 1) \div 4) + 1]
            IN  GrandCrossPairings(b[q[1]], b[q[2]], b[q[3]], b[q[4]])
                    [((x - 1) % 4) + 1]]

GrandCrossMatch(aspects, X, Y, U, V) ==
    /\ has_aspect(aspects, X, Y, "opposition")
    /\ has_aspect(aspects, U, V, "opposition")
    /\ has_aspect(aspects, X, U, "square")
    /\ has_aspect(aspects, U, Y, "square")
    /\ has_aspect(aspects, Y, V, "square")
    /\ has_aspect(aspects, V, X, "square")

GrandCrossPattern(X, Y, U, V) ==
    [ pattern_type |-> "Grand Cross",
      members |-> Sorted(<<X, Y, U, V>>),
      edges |-> << edge("opposition", X, Y), edge("opposition", U, V),
                   edge("square", X, U), edge("square", U, Y),
                   edge("square", Y, V), edge("square", V, X) >>,
      pattern_score |-> 88 ]

RECURSIVE GrandCrossLoop(_, _, _, _)
GrandCrossLoop(x, cands, aspects, acc) ==
    IF x > Len(cands) THEN acc
    ELSE LET X == cands[x][1]
             Y == cands[x][2]
             U == cands[x][3]
             V == cands[x][4]
         IN  IF GrandCrossMatch(aspects, X, Y, U, V)
             THEN GrandCrossLoop(x + 1, cands, aspects,
                      EmitOnce(acc,
                               unique_fingerprint(Sorted(<<X, Y, U, V>>),
                                                  "Grand Cross"),
                               GrandCrossPattern(X, Y, U, V)))
             ELSE GrandCrossLoop(x + 1, cands, aspects, acc)

detect_grand_crosses_in(b, aspects) ==
    GrandCrossLoop(1, GrandCrossCands(b), aspects, NoPatterns).patterns

detect_grand_crosses(aspects) ==
    detect_grand_crosses_in(bodies_from(aspects), aspects)

(***************************************************************************)
(* Pattern post-process: flag_out_of_sign, add_pattern_strength_scores     *)
(***************************************************************************)
\* the last index of aspects satisfying Hit, or 0: a dict built by
\* assigning in list order keeps the last value of a key
LastIndex(hits) ==
    IF hits = {} THEN 0 ELSE CHOOSE x \in hits : \A y \in hits : y <= x

\* edge_lookup.get(frozenset([e.body1, e.body2, e.aspect_name]), False)
OutOfSignLookup(aspects, e) ==
    LET key == {e.body1, e.body2, e.aspect_name}
        x == LastIndex(
                 {y \in DOMAIN aspects :
                     {aspects[y].body1, aspects[y].body2,
                      aspects[y].aspect_name} = key})
    IN  IF x = 0 THEN FALSE
        ELSE IF "out_of_sign" \in DOMAIN aspects[x]
             THEN aspects[x].out_of_sign
             ELSE FALSE

\* the has_out_of_sign value flag_out_of_sign computes for one pattern
HasOutOfSign(pat, aspects) ==
    \E x \in DOMAIN pat.edges : OutOfSignLookup(aspects, pat.edges[x])

\* flag_out_of_sign(patterns, aspects)
flag_out_of_sign(patterns, aspects) ==
    [x \in DOMAIN patterns |->
        [f \in DOMAIN patterns[x] \cup {"has_out_of_sign"} |->
            IF f = "has_out_of_sign" THEN HasOutOfSign(patterns[x], aspects)
            ELSE patterns[x][f]]]

\* _has_luminary(members)
has_luminary(members) ==
    LET m == {Lower(members[x]) : x \in DOMAIN members}
    IN  ("sun" \in m) \/ ("moon" \in m)

\* by_pair.get((tuple(sorted([e.body1, e.body2])), e.aspect_name)): the index
\* of the aspect dict the lookup holds for the edge (the last one of the
\* key), 0 for None
EdgeIndex(e, aspects) ==
    LET key == <<Sorted(<<e.body1, e.body2>>), e.aspect_name>>
    IN  LastIndex(
            {y \in DOMAIN aspects :
                <<Sorted(<<aspects[y].body1, aspects[y].body2>>),
                  aspects[y].aspect_name>> = key})

\* tightness_for_edge with tightness 1 for an edge the lookup does not hold
tightness_missing_full(e, aspects) ==
    LET x == EdgeIndex(e, aspects)
    IN  IF x = 0 THEN 24000
        ELSE LET orb == IF "orb_deg" \in DOMAIN aspects[x]
                        THEN aspects[x].orb_deg ELSE 999000
                 limit == OrbLimit(aspects[x].aspect_name)
             IN  Max(0, 24000 - orb * (24 \div limit))

\* tightness_for_edge with the ratio inverted (orb/limit for 1 - orb/limit)
tightness_inverted(e, aspects) ==
    LET x == EdgeIndex(e, aspects)
    IN  IF x = 0 THEN 0
        ELSE LET orb == IF "orb_deg" \in DOMAIN aspects[x]
                        THEN aspects[x].orb_deg ELSE 999000
                 limit == OrbLimit(aspects[x].aspect_name)
             IN  Max(0, Min(24000, orb * (24 \div limit)))

\* tightness_for_edge(e) as a numerator over 24000:
\* max(0, 1 - orb/limit), orb = asp.get("orb_deg", 999.0) in millidegrees
tightness_for_edge(e, aspects) ==
    LET x == EdgeIndex(e, aspects)
    IN  IF x = 0 THEN 0
        ELSE LET orb == IF "orb_deg" \in DOMAIN aspects[x]
                        THEN aspects[x].orb_deg ELSE 999000
                 limit == OrbLimit(aspects[x].aspect_name)
             IN  Max(0, 24000 - orb * (24 \div limit))

\* sum(ts) as a numerator over 24000
RECURSIVE SumTightness(_, _, _)
SumTightness(x, edges, aspects) ==
    IF x > Len(edges) THEN 0
    ELSE tightness_for_edge(edges[x], aspects)
         + SumTightness(x + 1, edges, aspects)

\* "score = base - penalty + bonus" of a pattern with n >= 1 edges, as a
\* numerator over 480000 * n: base = sum / (24000 * n), the penalty 0.10 is
\* 48000 * n, the bonus 0.05 is 24000 * n.
RawScore(pat, aspects) ==
    LET n == Len(pat.edges)
        base == 20 * SumTightness(1, pat.edges, aspects)
        penalty == IF "has_out_of_sign" \in DOMAIN pat /\ pat.has_out_of_sign
                   THEN 48000 * n ELSE 0
        bonus == IF "members" \in DOMAIN pat /\ has_luminary(pat.members)
                 THEN 24000 * n ELSE 0
    IN  (base - penalty) + bonus

\* StrengthScore without "score = max(0.0, min(1.0, score))"
StrengthScoreUnclamped(pat, aspects) ==
    IF ~("edges" \in DOMAIN pat) \/ pat.edges = << >> THEN 0
    ELSE RoundDiv(RawScore(pat, aspects), 480 * Len(pat.edges))

\* pattern_strength_score of one pattern, in thousandths: 0 for a pattern
\* without edges, else round(max(0.0, min(1.0, score)), 3)
StrengthScore(pat, aspects) ==
    IF ~("edges" \in DOMAIN pat) \/ pat.edges = << >> THEN 0
    ELSE LET n == Len(pat.edges)
             clamped == Max(0, Min(480000 * n, RawScore(pat, aspects)))
         IN  RoundDiv(clamped, 480 * n)

\* add_pattern_strength_scores(patterns, aspects)
add_pattern_strength_scores(patterns, aspects) ==
    [x \in DOMAIN patterns |->
        [f \in DOMAIN patterns[x] \cup {"pattern_strength_score"} |->
            IF f = "pattern_strength_score"
            THEN StrengthScore(patterns[x], aspects)
            ELSE patterns[x][f]]]

(***************************************************************************)
(* State: one date of fetch_weekly_aspects                                 *)
(***************************************************************************)
VARIABLES
    pc,         \* the next step of the per-date pipeline
    positions,  \* body name -> ecliptic longitude supplied by the ephemeris
    speeds,     \* body name -> speed in units per day
    aspects,    \* the aspect list
    patterns    \* the pattern list

vars == <<pc, positions, speeds, aspects, patterns>>

\* aspects = calculate_aspects(date)
CalculateAspects ==
    /\ pc = "calculate_aspects"
    /\ aspects' = calculate_aspects(positions, speeds)
    /\ pc' = "detect_yods"
    /\ UNCHANGED <<positions, speeds, patterns>>

\* patterns.extend(detect_yods(aspects))
DetectYods ==
    /\ pc = "detect_yods"
    /\ patterns' = patterns \o detect_yods(aspects)
    /\ pc' = "detect_tsquares"
    /\ UNCHANGED <<positions, speeds, aspects>>

\* patterns.extend(detect_tsquares(aspects))
DetectTSquares ==
    /\ pc = "detect_tsquares"
    /\ patterns' = patterns \o detect_tsquares(aspects)
    /\ pc' = "detect_grand_trines"
    /\ UNCHANGED <<positions, speeds, aspects>>

\* patterns.extend(detect_grand_trines(aspects))
DetectGrandTrines ==
    /\ pc = "detect_grand_trines"
    /\ patterns' = patterns \o detect_grand_trines(aspects)
    /\ pc' = "detect_kites"
    /\ UNCHANGED <<positions, speeds, aspects>>

\* patterns.extend(detect_kites(aspects))
DetectKites ==
    /\ pc = "detect_kites"
    /\ patterns' = patterns \o detect_kites(aspects)
    /\ pc' = "detect_mystic_rectangles"
    /\ UNCHANGED <<positions, speeds, aspects>>

\* patterns.extend(detect_mystic_rectangles(aspects))
DetectMysticRectangles ==
    /\ pc = "detect_mystic_rectangles"
    /\ patterns' = patterns \o detect_mystic_rectangles(aspects)
    /\ pc' = "detect_grand_crosses"
    /\ UNCHANGED <<positions, speeds, aspects>>

\* patterns.extend(detect_grand_crosses(aspects))
DetectGrandCrosses ==
    /\ pc = "detect_grand_crosses"
    /\ patterns' = patterns \o detect_grand_crosses(aspects)
    /\ pc' = "flag_out_of_sign"
    /\ UNCHANGED <<positions, speeds, aspects>>

\* patterns = flag_out_of_sign(patterns, aspects)
FlagOutOfSign ==
    /\ pc = "flag_out_of_sign"
    /\ patterns' = flag_out_of_sign(patterns, aspects)
    /\ pc' = "add_pattern_strength_scores"
    /\ UNCHANGED <<positions, speeds, aspects>>

\* patterns = add_pattern_strength_scores(patterns, aspects)
AddPatternStrengthScores ==
    /\ pc = "add_pattern_strength_scores"
    /\ patterns' = add_pattern_strength_scores(patterns, aspects)
    /\ pc' = "done"
    /\ UNCHANGED <<positions, speeds, aspects>>

(***************************************************************************)
(* Inputs of one date: positions and speeds supplied by the ephemeris      *)
(***************************************************************************)
\* how many orb values next to each orb limit the separations include
NearSteps == 1

\* how many 2-degree offsets the first roster body takes
OffsetSteps == 1

\* how many named aspects one body pair of a synthetic 3-body graph may carry
MaxPerPair == 2

\* a record/function with exactly the keys p1, p2
Pair2(p1, v1, p2, v2) == (p1 :> v1) @@ (p2 :> v2)

\* deviations from an ideal angle: exact, values round(x, 3) rounds down
\* and up, half the limit, and the limit with its neighbours
OrbOffsets(limit) ==
    LET pos == {0, 4, 16, Deg(limit) \div 2, Deg(limit)}
               \cup {Deg(limit) - n : n \in 1..NearSteps}
               \cup {Deg(limit) + n : n \in 1..NearSteps}
    IN  pos \cup {-o : o \in pos}

\* the separations lon2 - lon1 (mod 360) the pair inputs take
Separations ==
    UNION { { (sgn * (Deg(ASPECT_DEFS[k].ideal) + o)) % Deg(360) :
                o \in OrbOffsets(OrbLimit(ASPECT_DEFS[k].name)),
                sgn \in {1, -1} } :
            k \in 1..Len(ASPECT_DEFS) }

\* (speed of the first body, speed of the second), units per day: a fast
\* direct body with a slow one, and a still body with a retrograde one
SpeedPairs == { <<Deg(13), Deg(1)>>, <<0, -Deg(1)>> }

\* two bodies of the table: the first at the start of any sign, the second
\* at any of the separations from it
InitPairs ==
    /\ pc = "calculate_aspects"
    /\ \E p1 \in PlanetNames, p2 \in PlanetNames, s \in 0..11,
          sep \in Separations, sp \in SpeedPairs :
          /\ Rank(p1) < Rank(p2)
          /\ positions = Pair2(p1, Deg(30 * s), p2, (Deg(30 * s) + sep) % Deg(360))
          /\ speeds = Pair2(p1, sp[1], p2, sp[2])
    /\ aspects = << >>
    /\ patterns = << >>

\* the bodies of the four-body inputs and of the synthetic graphs, sorted
Roster == <<"jupiter", "mars", "mercury", "moon">>

\* four bodies: the first within a few degrees of 0, the others at the
\* start of any sign
InitRoster ==
    /\ pc = "calculate_aspects"
    /\ \E o \in 0..OffsetSteps, f \in [2..Len(Roster) -> 0..11] :
          positions = [b \in {Roster[x] : x \in 1..Len(Roster)} |->
                          LET x == CHOOSE x \in 1..Len(Roster) : Roster[x] = b
                          IN  IF x = 1 THEN Deg(2 * o) ELSE Deg(30 * f[x])]
    /\ speeds = [b \in {Roster[x] : x \in 1..Len(Roster)} |->
                    IF b = "moon" THEN Deg(13) ELSE Deg(1)]
    /\ aspects = << >>
    /\ patterns = << >>

(***************************************************************************)
(* Synthetic aspect graphs: the input of the detectors                     *)
(***************************************************************************)
\* the aspect names the motifs read, in ASPECT_DEFS order
MotifAspects == <<"sextile", "square", "trine", "quincunx", "opposition">>

MotifAspectSet == {MotifAspects[x] : x \in 1..Len(MotifAspects)}

\* the unordered pairs of the first n roster bodies, as index pairs
RosterPairs(n) == {<<i, j>> \in (1..n) \X (1..n) : i < j}

\* the edges of names on the pair (i, j), one per name of the set, in
\* MotifAspects order
EdgesOn(i, j, names) ==
    LET named == SelectSeq(MotifAspects, LAMBDA a : a \in names)
    IN  [x \in 1..Len(named) |->
            [body1 |-> Roster[i], body2 |-> Roster[j], aspect_name |-> named[x]]]

\* the aspect list of a labelling g (pair -> set of names) of the pairs of
\* the first n roster bodies, pair by pair
RECURSIVE GraphLoop(_, _, _, _)
GraphLoop(i, j, n, g) ==
    IF i > n THEN << >>
    ELSE IF j > n THEN GraphLoop(i + 1, i + 2, n, g)
    ELSE EdgesOn(i, j, g[<<i, j>>]) \o GraphLoop(i, j + 1, n, g)

GraphOf(n, g) == GraphLoop(1, 2, n, g)

\* at most one edge per pair
SingleLabels == {{}} \cup {{a} : a \in MotifAspectSet}

\* up to MaxPerPair edges per pair
MultiLabels == {L \in SUBSET MotifAspectSet : Cardinality(L) <= MaxPerPair}

\* every graph on the four roster bodies with at most one edge per pair, and
\* every graph on the first three with up to MaxPerPair edges per pair
InitGraph ==
    /\ pc = "detect_yods"
    /\ positions = << >>
    /\ speeds = << >>
    /\ \/ \E g \in [RosterPairs(4) -> SingleLabels] : aspects = GraphOf(4, g)
       \/ \E g \in [RosterPairs(3) -> MultiLabels] : aspects = GraphOf(3, g)
    /\ patterns = << >>

(***************************************************************************)
(* Synthetic patterns and aspects: the input of the scorer                 *)
(***************************************************************************)
\* how many equal steps of the orb limit the synthetic orbs take
OrbSteps == 2

\* orb_deg values (millidegrees) of a synthetic edge whose limit is L
\* degrees: exact, a tenth of the limit, the steps up to the limit, and
\* half a degree past it
OrbLevels(L) ==
    {0, 100 * L, (1000 * L) + 500}
    \cup {(1000 * L * k) \div OrbSteps : k \in 1..OrbSteps}

\* what the aspect list holds for one pattern edge: nothing, an aspect dict
\* without orb_deg and out_of_sign, or one with both
EdgeChoices(e) ==
    { <<"missing">>, <<"bare">> }
    \cup { <<"edge", orb, oos>> :
             orb \in OrbLevels(OrbLimit(e.aspect_name)), oos \in BOOLEAN }

\* the same for the edges of the six-edge pattern
CoarseChoices(e) ==
    { <<"missing">>, <<"edge", 0, FALSE>>,
      <<"edge", 500 * OrbLimit(e.aspect_name), TRUE>> }

\* the aspect dicts (zero or one) of choice c for pattern edge e
ChosenAspect(e, c) ==
    IF c[1] = "missing" THEN << >>
    ELSE IF c[1] = "bare" THEN << e >>
    ELSE << [body1 |-> e.body1, body2 |-> e.body2,
             aspect_name |-> e.aspect_name,
             orb_deg |-> c[2], out_of_sign |-> c[3]] >>

\* the aspect list of the choices ch for the edge list, edge by edge
RECURSIVE ChosenAspects(_, _, _)
ChosenAspects(x, edges, ch) ==
    IF x > Len(edges) THEN << >>
    ELSE ChosenAspect(edges[x], ch[x]) \o ChosenAspects(x + 1, edges, ch)

\* a pattern with no edges
EmptyPattern ==
    [pattern_type |-> "Yod", members |-> <<"sun">>, edges |-> << >>,
     pattern_score |-> 80]

\* one pattern p, alone or next to a pattern with no edges
PatternLists(p) == { <<p>>, <<EmptyPattern, p>>, <<p, EmptyPattern>> }

\* the three-edge patterns given to the scorer: one with a luminary (named
\* in capitals), one without
ScoreTriples ==
    { YodPattern("jupiter", "mars", "Moon"),
      TSquarePattern("jupiter", "mars", "mercury") }

\* the six-edge pattern given to the scorer
ScoreKite ==
    KitePattern("jupiter", "mars", "mercury", "sun", "jupiter", "mars",
                "mercury")

InitScore ==
    /\ pc = "flag_out_of_sign"
    /\ positions = << >>
    /\ speeds = << >>
    /\ \/ \E p \in ScoreTriples :
            /\ patterns \in PatternLists(p)
            /\ \E ch \in [1..3 -> UNION {EdgeChoices(p.edges[x]) : x \in 1..3}] :
                  /\ \A x \in 1..3 : ch[x] \in EdgeChoices(p.edges[x])
                  /\ aspects = ChosenAspects(1, p.edges, ch)
       \/ /\ patterns \in PatternLists(ScoreKite)
          /\ \E ch \in [1..6 -> UNION {CoarseChoices(ScoreKite.edges[x]) : x \in 1..6}] :
                /\ \A x \in 1..6 : ch[x] \in CoarseChoices(ScoreKite.edges[x])
                /\ aspects = ChosenAspects(1, ScoreKite.edges, ch)

(***************************************************************************)
(* Specifications                                                          *)
(***************************************************************************)
Init == InitRoster

Next ==
    \/ CalculateAspects
    \/ DetectYods
    \/ DetectTSquares
    \/ DetectGrandTrines
    \/ DetectKites
    \/ DetectMysticRectangles
    \/ DetectGrandCrosses
    \/ FlagOutOfSign
    \/ AddPatternStrengthScores

\* one date of fetch_weekly_aspects on four bodies
Spec == Init /\ [][Next]_vars

\* calculate_aspects alone, on body pairs and on the four-body inputs
InitAspects == InitPairs \/ InitRoster

SpecAspects == InitAspects /\ [][CalculateAspects]_vars

NextDetect ==
    \/ DetectYods
    \/ DetectTSquares
    \/ DetectGrandTrines
    \/ DetectKites
    \/ DetectMysticRectangles
    \/ DetectGrandCrosses

\* the six detectors of one date run on a synthetic aspect graph
SpecGraph == InitGraph /\ [][NextDetect]_vars

NextScore ==
    \/ FlagOutOfSign
    \/ AddPatternStrengthScores

\* the scorer run on synthetic patterns and aspects
SpecScore == InitScore /\ [][NextScore]_vars

NextParts ==
    \/ CalculateAspects
    \/ FlagOutOfSign
    \/ AddPatternStrengthScores

\* the two scoring steps, each on its own inputs: calculate_aspects on the
\* position inputs, the pattern scorer on the synthetic patterns
SpecRange == (InitAspects \/ InitScore) /\ [][NextParts]_vars

(***************************************************************************)
(* Properties of the detectors (SpecGraph)                                 *)
(***************************************************************************)
RosterSet == {Roster[x] : x \in 1..Len(Roster)}

\* the k-element sets of bodies
KSubsets(k) == {M \in SUBSET RosterSet : Cardinality(M) = k}

\* every detector has run
Detected == pc = "flag_out_of_sign"

\* how many patterns of the type the list holds for the member set M
CountPatterns(type, M) ==
    Cardinality({x \in DOMAIN patterns :
                    /\ patterns[x].pattern_type = type
                    /\ patterns[x].members = SortedNames(M)})

\* M splits into two pairs in opposition whose four cross-pairs all carry
\* the aspect cross
TwoOppositions(M, cross) ==
    \E a \in M, b \in M, c \in M, d \in M :
        /\ Cardinality({a, b, c, d}) = 4
        /\ has_aspect(aspects, a, b, "opposition")
        /\ has_aspect(aspects, c, d, "opposition")
        /\ has_aspect(aspects, a, c, cross)
        /\ has_aspect(aspects, a, d, cross)
        /\ has_aspect(aspects, b, c, cross)
        /\ has_aspect(aspects, b, d, cross)

\* C1: once detect_mystic_rectangles has run, every 4 bodies that split
\* into two pairs in opposition with all four cross-pairs in sextile are the
\* members of an emitted Mystic Rectangle, whichever pairing of the sorted
\* members carries the oppositions.
C1_EveryMysticRectangleReported ==
    pc \in {"detect_grand_crosses", "flag_out_of_sign"} =>
        \A M \in KSubsets(4) :
            TwoOppositions(M, "sextile") =>
                CountPatterns("Mystic Rectangle", M) >= 1

\* C3: the pattern list never holds two patterns with the same
\* pattern_type and the same members, after any number of detectors.
C3_OnePatternPerFingerprint ==
    \A x \in DOMAIN patterns, y \in DOMAIN patterns :
        (/\ patterns[x].pattern_type = patterns[y].pattern_type
         /\ patterns[x].members = patterns[y].members) => x = y

\* C3 witness: a Grand Cross was emitted for a subset that two of the role
\* tuples tried match (oppositions on the first/fourth and second/third
\* sorted members), and a Yod for a subset with two matching assignments.
C3_Witness ==
    /\ Detected
    /\ \/ /\ CountPatterns("Grand Cross", RosterSet) = 1
          /\ has_aspect(aspects, Roster[1], Roster[4], "opposition")
          /\ has_aspect(aspects, Roster[2], Roster[3], "opposition")
       \/ /\ CountPatterns("Yod", {Roster[1], Roster[2], Roster[3]}) = 1
          /\ YodMatch(aspects, Roster[1], Roster[2], Roster[3])
          /\ YodMatch(aspects, Roster[1], Roster[3], Roster[2])

\* some assignment of the three bodies of M to the roles satisfies the Yod
YodShape(M) ==
    \E A \in M, B \in M, C \in M :
        /\ Cardinality({A, B, C}) = 3
        /\ has_aspect(aspects, A, B, "sextile")
        /\ has_aspect(aspects, A, C, "quincunx")
        /\ has_aspect(aspects, B, C, "quincunx")

TSquareShape(M) ==
    \E X \in M, Y \in M, Z \in M :
        /\ Cardinality({X, Y, Z}) = 3
        /\ has_aspect(aspects, X, Y, "opposition")
        /\ has_aspect(aspects, X, Z, "square")
        /\ has_aspect(aspects, Y, Z, "square")

GrandTrineShape(M) ==
    \A A \in M, B \in M : A # B => has_aspect(aspects, A, B, "trine")

KiteShape(M) ==
    \E D \in M, A \in M :
        /\ A # D
        /\ GrandTrineShape(M \ {D})
        /\ has_aspect(aspects, D, A, "opposition")
        /\ \A B \in M \ {D, A} : has_aspect(aspects, D, B, "sextile")

\* the number of patterns of the type for M is 1 if the shape holds, else 0
ExactlyWhen(type, M, shape) ==
    CountPatterns(type, M) = IF shape THEN 1 ELSE 0

\* C4: once the detectors have run, each of Yod, T-Square, Grand Trine and
\* Kite has exactly one pattern for a member subset when some role
\* assignment of the subset satisfies the motif and none otherwise, and
\* every edge of every emitted pattern is an edge of the aspect graph.
C4_ExactlyOnePerMatchingSubset ==
    Detected =>
        /\ \A M \in KSubsets(3) :
              /\ ExactlyWhen("Yod", M, YodShape(M))
              /\ ExactlyWhen("T-Square", M, TSquareShape(M))
              /\ ExactlyWhen("Grand Trine", M, GrandTrineShape(M))
        /\ \A M \in KSubsets(4) : ExactlyWhen("Kite", M, KiteShape(M))
        /\ \A x \in DOMAIN patterns : \A y \in DOMAIN patterns[x].edges :
              LET e == patterns[x].edges[y]
              IN  has_aspect(aspects, e.body1, e.body2, e.aspect_name)

\* C4 witness: a Yod whose sextile joins the second and third sorted members
\* was reported next to a noise edge, and the graph holds a Kite too in
\* some run.
C4_Witness ==
    /\ Detected
    /\ CountPatterns("Yod", {Roster[1], Roster[2], Roster[3]}) = 1
    /\ has_aspect(aspects, Roster[2], Roster[3], "sextile")
    /\ has_aspect(aspects, Roster[1], Roster[4], "square")

\* the three ways to split the sorted members (A, B, C, D) into two pairs
PairSplits(A, B, C, D) ==
    { {{A, B}, {C, D}}, {{A, C}, {B, D}}, {{A, D}, {B, C}} }

\* C5: once detect_grand_crosses has run, a Grand Cross is reported for 4
\* bodies exactly when they split into two pairs in opposition with all four
\* cross-pairs in square; and the role tuples tried cover all three splits.
C5_GrandCrossIffShape ==
    Detected =>
        /\ \A M \in KSubsets(4) :
              ExactlyWhen("Grand Cross", M, TwoOppositions(M, "square"))
        /\ LET t == GrandCrossPairings(Roster[1], Roster[2], Roster[3], Roster[4])
           IN  PairSplits(Roster[1], Roster[2], Roster[3], Roster[4])
                  = { {{t[x][1], t[x][2]}, {t[x][3], t[x][4]}} : x \in 1..Len(t) }

\* C5 witness: a Grand Cross whose oppositions join the first/fourth and the
\* second/third sorted members was reported.
C5_Witness ==
    /\ Detected
    /\ CountPatterns("Grand Cross", RosterSet) = 1
    /\ has_aspect(aspects, Roster[1], Roster[4], "opposition")

\* the permutations of a list of distinct names
Orderings(b) ==
    {q \in [1..Len(b) -> {b[x] : x \in 1..Len(b)}] :
        \A x \in 1..Len(b), y \in 1..Len(b) : q[x] = q[y] => x = y}

\* the six detectors run with the bodies enumerated in the order b
DetectAllIn(b, asp) ==
    detect_yods_in(b, asp) \o detect_tsquares_in(b, asp)
    \o detect_grand_trines_in(b, asp) \o detect_kites_in(b, asp)
    \o detect_mystic_rectangles_in(b, asp) \o detect_grand_crosses_in(b, asp)

\* a pattern list as a set of (type, members, set of edge descriptors)
PatternSet(pats) ==
    { << pats[x].pattern_type, pats[x].members,
         {pats[x].edges[y] : y \in DOMAIN pats[x].edges} >> : x \in DOMAIN pats }

\* at most one edge per unordered body pair
SingleEdged(asp) ==
    \A x \in DOMAIN asp, y \in DOMAIN asp :
        {asp[x].body1, asp[x].body2} = {asp[y].body1, asp[y].body2} => x = y

Calculated == pc = "detect_yods"

\* the bodies given positions
Bodies == DOMAIN positions

\* the indices of the edges the aspect list holds for the unordered pair
EdgesOf(p1, p2) ==
    {x \in DOMAIN aspects : {aspects[x].body1, aspects[x].body2} = {p1, p2}}

\* orb of definition k for the pair: |separation - ideal|
OrbOf(k, p1, p2) ==
    Abs(angular_distance(positions[p1], positions[p2]) - Deg(ASPECT_DEFS[k].ideal))

\* the definitions whose orb for the pair is within their orb limit
Qualifying(p1, p2) ==
    {k \in 1..Len(ASPECT_DEFS) :
        OrbOf(k, p1, p2) <= Deg(OrbLimit(ASPECT_DEFS[k].name))}

\* the qualifying definition with the minimum orb, the first on a tie
Closest(p1, p2) ==
    CHOOSE k \in Qualifying(p1, p2) :
        \A m \in Qualifying(p1, p2) :
            \/ OrbOf(k, p1, p2) < OrbOf(m, p1, p2)
            \/ OrbOf(k, p1, p2) = OrbOf(m, p1, p2) /\ k <= m

\* C2: after calculate_aspects every unordered pair of distinct bodies has
\* at most one edge; none when no definition qualifies, and otherwise exactly
\* one, carrying the qualifying definition of minimum orb (the first in
\* definition order on a tie) and that orb; and every edge joins two
\* distinct bodies.
C2_OneClosestEdgePerPair ==
    Calculated =>
        /\ \A p1 \in Bodies, p2 \in Bodies :
              IF p1 = p2 THEN EdgesOf(p1, p2) = {}
              ELSE IF Qualifying(p1, p2) = {}
              THEN EdgesOf(p1, p2) = {}
              ELSE /\ Cardinality(EdgesOf(p1, p2)) = 1
                   /\ \A x \in EdgesOf(p1, p2) :
                         LET k == Closest(p1, p2)
                         IN  /\ aspects[x].aspect_name = ASPECT_DEFS[k].name
                             /\ aspects[x].ideal_angle_deg = ASPECT_DEFS[k].ideal
                             /\ aspects[x].orb_deg = Round3(OrbOf(k, p1, p2))
        /\ \A x \in DOMAIN aspects :
              /\ aspects[x].body1 # aspects[x].body2
              /\ {aspects[x].body1, aspects[x].body2} \subseteq Bodies

\* C2 witness: two bodies whose separation lies exactly on the orb limit of
\* a definition got their one edge, of that definition.
C2_Witness ==
    /\ Calculated
    /\ Cardinality(Bodies) = 2
    /\ Len(aspects) = 1
    /\ \E k \in 1..Len(ASPECT_DEFS) :
          /\ aspects[1].aspect_name = ASPECT_DEFS[k].name
          /\ OrbOf(k, aspects[1].body1, aspects[1].body2)
                = Deg(OrbLimit(ASPECT_DEFS[k].name))

\* the pairs of distinct bodies at identical longitude
Coincident ==
    {pr \in Bodies \X Bodies :
        pr[1] # pr[2] /\ positions[pr[1]] = positions[pr[2]]}

\* the pair has exactly one edge, a conjunction of orb 0, whose
\* importance_score (thousandths) is score
ConjunctionScored(p1, p2, score) ==
    /\ Cardinality(EdgesOf(p1, p2)) = 1
    /\ \A x \in EdgesOf(p1, p2) :
          /\ aspects[x].aspect_name = "conjunction"
          /\ aspects[x].orb_deg = 0
          /\ aspects[x].importance_score = score

\* C8 as stated: two bodies at identical longitude get one conjunction edge
\* of orb 0 whose importance_score is the mean of the two body weights.
C8_ImportanceIsMeanWeight ==
    Calculated =>
        \A pr \in Coincident :
            ConjunctionScored(pr[1], pr[2],
                              (body_weight(pr[1]) + body_weight(pr[2])) * 5)

\* C8 amended: two bodies at identical longitude get one conjunction edge
\* of orb 0 whose importance_score is the mean of the two body weights or
\* 1.0, whichever is smaller.
C8_ImportanceIsCappedMeanWeight ==
    Calculated =>
        \A pr \in Coincident :
            ConjunctionScored(pr[1], pr[2],
                Min(1000, (body_weight(pr[1]) + body_weight(pr[2])) * 5))

\* C8 witness: the sun and the moon, whose mean weight is above 1.0, and in
\* another run uranus and neptune, whose mean weight is below it, at one
\* longitude after calculate_aspects.
C8_Witness ==
    /\ Calculated
    /\ \/ <<"moon", "sun">> \in Coincident
       \/ <<"neptune", "uranus">> \in Coincident
    /\ Len(aspects) = 1

\* the aspect name expected from the absolute sign-index difference
ExpectedFromSigns(d) ==
    CASE d = 0         -> "conjunction"
      [] d \in {2, 10} -> "sextile"
      [] d \in {3, 9}  -> "square"
      [] d \in {4, 8}  -> "trine"
      [] d = 6         -> "opposition"
      [] OTHER         -> None

\* C10: out_of_sign of every edge is true exactly when the edge's aspect
\* name differs from the name expected from the absolute difference of the
\* sign indices floor(longitude / 30) of its two bodies; with no expected
\* name it is true.
C10_OutOfSignIffUnexpected ==
    Calculated =>
        \A x \in DOMAIN aspects :
            LET s1 == positions[aspects[x].body1] \div Deg(30)
                s2 == positions[aspects[x].body2] \div Deg(30)
                expected == ExpectedFromSigns(Abs(s1 - s2))
            IN  /\ aspects[x].out_of_sign = (aspects[x].aspect_name # expected)
                /\ expected = None => aspects[x].out_of_sign
                /\ aspects[x].sign1 = SIGN_NAMES[s1 + 1]
                /\ aspects[x].sign2 = SIGN_NAMES[s2 + 1]

\* C10 witness: a sextile in signs ten apart, which is not out of sign.
C10_Witness ==
    /\ Calculated
    /\ \E x \in DOMAIN aspects :
          /\ aspects[x].aspect_name = "sextile"
          /\ Abs((positions[aspects[x].body1] \div Deg(30))
                 - (positions[aspects[x].body2] \div Deg(30))) = 10
          /\ ~aspects[x].out_of_sign

(***************************************************************************)
(* Properties of the scorer (SpecScore, SpecRange)                         *)
(***************************************************************************)
\* add_pattern_strength_scores has run
Scored == pc = "done"

\* the patterns that have edges
EdgedPatterns == {x \in DOMAIN patterns : patterns[x].edges # << >>}

\* the aspect dicts the scorer reads for the edges of pattern x whose orb is
\* within the orb limit of their aspect
Contributing(x) ==
    {y \in {EdgeIndex(patterns[x].edges[z], aspects) :
               z \in DOMAIN patterns[x].edges} \ {0} :
        /\ "orb_deg" \in DOMAIN aspects[y]
        /\ aspects[y].orb_deg <= 1000 * OrbLimit(aspects[y].aspect_name)}

\* the larger orbs, still within the limit, tried for aspect dict y
RaisedOrbs(y) ==
    LET L == OrbLimit(aspects[y].aspect_name)
    IN  {o \in {aspects[y].orb_deg + 1, 1000 * L} \cup OrbLevels(L) :
            aspects[y].orb_deg < o /\ o <= 1000 * L}

\* the aspect list with the orb of aspect dict y set to o, all else equal
WithOrb(y, o) == [aspects EXCEPT ![y].orb_deg = o]

\* C7 as stated: raising the orb of one contributing edge, within its limit
\* and all else equal, gives the pattern a strictly smaller
\* pattern_strength_score.
C7_StrictlyDecreasing ==
    Scored =>
        \A x \in EdgedPatterns : \A y \in Contributing(x) :
            \A o \in RaisedOrbs(y) :
                StrengthScore(patterns[x], WithOrb(y, o))
                    < patterns[x].pattern_strength_score

\* C7 amended: raising the orb of one contributing edge, within its limit
\* and all else equal, never gives the pattern a larger
\* pattern_strength_score, and gives a strictly smaller one when the score
\* before clamping is at most 1 with the smaller orb, at least 0 with the
\* larger, and the orb rises by more than (number of edges) x (orb limit in
\* degrees) thousandths of a degree, that is when the unrounded scores
\* differ by more than 0.001.
C7_DecreasingUpToClampAndRounding ==
    Scored =>
        \A x \in EdgedPatterns : \A y \in Contributing(x) :
            \A o \in RaisedOrbs(y) :
                LET n == Len(patterns[x].edges)
                    after == WithOrb(y, o)
                IN  /\ StrengthScore(patterns[x], after)
                          <= patterns[x].pattern_strength_score
                    /\ (/\ RawScore(patterns[x], aspects) <= 480000 * n
                        /\ RawScore(patterns[x], after) >= 0
                        /\ o - aspects[y].orb_deg
                              > n * OrbLimit(aspects[y].aspect_name))
                       => StrengthScore(patterns[x], after)
                              < patterns[x].pattern_strength_score

\* C7 witness: a scored pattern with a contributing edge that has both a
\* larger orb giving a strictly smaller score and a larger orb leaving the
\* score as it is.
C7_Witness ==
    /\ Scored
    /\ \E x \in EdgedPatterns : \E y \in Contributing(x) :
          /\ \E o \in RaisedOrbs(y) :
                StrengthScore(patterns[x], WithOrb(y, o))
                    < patterns[x].pattern_strength_score
          /\ \E o \in RaisedOrbs(y) :
                StrengthScore(patterns[x], WithOrb(y, o))
                    = patterns[x].pattern_strength_score

\* C9: importance_score of every edge and pattern_strength_score of every
\* scored pattern lie in [0, 1] (0..1000 thousandths), whatever the
\* positions, the body weights, the aspect graph, the out-of-sign penalty
\* and the luminary bonus, also for patterns without edges or whose edges
\* are all missing from the aspect graph.
C9_ScoresInUnitRange ==
    /\ \A x \in DOMAIN aspects :
          "importance_score" \in DOMAIN aspects[x] =>
              aspects[x].importance_score \in 0..1000
    /\ \A x \in DOMAIN patterns :
          /\ "pattern_strength_score" \in DOMAIN patterns[x] =>
                patterns[x].pattern_strength_score \in 0..1000
          /\ Scored => "pattern_strength_score" \in DOMAIN patterns[x]

\* C9 witness: scored together, a pattern without edges and a pattern with
\* a luminary and no penalty whose score before clamping is above 1.
C9_Witness ==
    /\ Scored
    /\ \E x \in DOMAIN patterns : patterns[x].edges = << >>
    /\ \E x \in EdgedPatterns :
          /\ has_luminary(patterns[x].members)
          /\ ~patterns[x].has_out_of_sign
          /\ RawScore(patterns[x], aspects) > 480000 * Len(patterns[x].edges)
          /\ patterns[x].pattern_strength_score = 1000

(***************************************************************************)
(* Pattern edges absent from the aspect graph (SpecScore)                  *)
(***************************************************************************)
\* flag_out_of_sign has run
Flagged == pc \in {"add_pattern_strength_scores", "done"}

\* the aspect list holds an aspect of the edge's name on the edge's pair
EdgePresent(e) ==
    \E y \in DOMAIN aspects :
        /\ {aspects[y].body1, aspects[y].body2} = {e.body1, e.body2}
        /\ aspects[y].aspect_name = e.aspect_name

\* sum of the tightness of the edges from x on, an absent edge counting 0
RECURSIVE PresentTightness(_, _)
PresentTightness(x, edges) ==
    IF x > Len(edges) THEN 0
    ELSE (IF EdgePresent(edges[x]) THEN tightness_for_edge(edges[x], aspects)
          ELSE 0)
         + PresentTightness(x + 1, edges)

\* the strength score (thousandths) of a flagged pattern with edges, an
\* absent edge contributing tightness 0 to the average
ScoreWithAbsentAsZero(pat) ==
    LET n == Len(pat.edges)
        raw == (20 * PresentTightness(1, pat.edges))
               - (IF pat.has_out_of_sign THEN 48000 * n ELSE 0)
               + (IF has_luminary(pat.members) THEN 24000 * n ELSE 0)
    IN  RoundDiv(Max(0, Min(480000 * n, raw)), 480 * n)

\* C11: flag_out_of_sign annotates every pattern, and a pattern is flagged
\* only through an edge present in the aspect list (an absent edge counts as
\* not out-of-sign); add_pattern_strength_scores annotates every pattern, a
\* pattern without edges with 0 and any other with the score in which each
\* absent edge contributes tightness 0 to the average.
C11_AbsentEdgesAreDefaults ==
    /\ Flagged =>
          \A x \in DOMAIN patterns :
              /\ "has_out_of_sign" \in DOMAIN patterns[x]
              /\ patterns[x].has_out_of_sign =>
                    \E z \in DOMAIN patterns[x].edges :
                        EdgePresent(patterns[x].edges[z])
    /\ Scored =>
          \A x \in DOMAIN patterns :
              /\ "pattern_strength_score" \in DOMAIN patterns[x]
              /\ patterns[x].pattern_strength_score =
                    IF patterns[x].edges = << >> THEN 0
                    ELSE ScoreWithAbsentAsZero(patterns[x])

\* C11 witness: scored together, a pattern without edges and a pattern with
\* one edge absent from the aspect list and another present.
C11_Witness ==
    /\ Scored
    /\ \E x \in DOMAIN patterns : patterns[x].edges = << >>
    /\ \E x \in EdgedPatterns :
          /\ \E z \in DOMAIN patterns[x].edges :
                ~EdgePresent(patterns[x].edges[z])
          /\ \E z \in DOMAIN patterns[x].edges :
                EdgePresent(patterns[x].edges[z])

(***************************************************************************)
(* Phase of an edge (SpecAspects)                                          *)
(***************************************************************************)
\* the body of edge x with the larger absolute speed; body2 when the two
\* are equal
FasterOf(x) ==
    IF Abs(speeds[aspects[x].body1]) > Abs(speeds[aspects[x].body2])
    THEN aspects[x].body1 ELSE aspects[x].body2

SlowerOf(x) ==
    IF FasterOf(x) = aspects[x].body1 THEN aspects[x].body2
    ELSE aspects[x].body1

\* the orb of edge x before rounding
ExactOrb(x) ==
    Abs(angular_distance(positions[aspects[x].body1],
                         positions[aspects[x].body2])
        - Deg(aspects[x].ideal_angle_deg))

\* deviation from the ideal angle of edge x once the faster body has moved
\* by its speed (units per day) over days_num / days_den days, the slower
\* body staying where it is
DeviationAfter(x, days_num, days_den) ==
    LET moved == (positions[FasterOf(x)]
                  + ((speeds[FasterOf(x)] * days_num) \div days_den))
                 % Deg(360)
    IN  Abs(angular_distance(moved, positions[SlowerOf(x)])
            - Deg(aspects[x].ideal_angle_deg))

\* every edge is applying exactly when the deviation after the given time
\* is strictly smaller than the orb, and separating otherwise
PhaseByProjection(days_num, days_den) ==
    \A x \in DOMAIN aspects :
        /\ aspects[x].phase \in {"applying", "separating"}
        /\ aspects[x].phase = "applying"
              <=> DeviationAfter(x, days_num, days_den) < ExactOrb(x)

\* C12 as stated: the phase of every edge follows from moving the faster
\* body by its speed over one half-day.
C12_PhaseByHalfDay == Calculated => PhaseByProjection(1, 2)

\* C12 amended: the phase of every edge follows from moving the faster body
\* (the second body of the pair on equal absolute speeds) by its speed in
\* degrees per day over one whole day; an edge of orb 0 is separating.
C12_PhaseByWholeDay ==
    Calculated =>
        /\ PhaseByProjection(1, 1)
        /\ \A x \in DOMAIN aspects :
              ExactOrb(x) = 0 => aspects[x].phase = "separating"

\* C12 witness: an edge that is applying after half a day and separating
\* after the whole day the code projects, the faster body having passed the
\* ideal angle.
C12_Witness ==
    /\ Calculated
    /\ \E x \in DOMAIN aspects :
          /\ DeviationAfter(x, 1, 2) < ExactOrb(x)
          /\ DeviationAfter(x, 1, 1) >= ExactOrb(x)
          /\ aspects[x].phase = "separating"

(***************************************************************************)
(* Quincunxes and Yods in the per-date pipeline (Spec)                     *)
(***************************************************************************)
\* the Yods of the pattern list
Yods == {x \in DOMAIN patterns : patterns[x].pattern_type = "Yod"}

\* the strength score (thousandths) of pattern x with the 0.10 penalty taken
YodScoreWithPenalty(x) ==
    LET n == Len(patterns[x].edges)
        raw == (20 * SumTightness(1, patterns[x].edges, aspects))
               - (48000 * n)
               + (IF has_luminary(patterns[x].members) THEN 24000 * n ELSE 0)
    IN  RoundDiv(Max(0, Min(480000 * n, raw)), 480 * n)

\* C13: no sign-index difference makes quincunx the expected aspect, so in
\* the pipeline every quincunx edge is out of sign, every Yod detected is
\* flagged has_out_of_sign, and the pattern_strength_score of every Yod is
\* the score with the 0.10 penalty subtracted.
C13_YodsAlwaysPenalised ==
    /\ \A d \in 0..11 : ExpectedAspect(d) # "quincunx"
    /\ \A x \in DOMAIN aspects :
          aspects[x].aspect_name = "quincunx" => aspects[x].out_of_sign
    /\ Flagged => \A x \in Yods : patterns[x].has_out_of_sign
    /\ Scored =>
          \A x \in Yods :
              patterns[x].pattern_strength_score = YodScoreWithPenalty(x)

\* C13 witness: the pipeline has scored a Yod whose score is above 0 and
\* would be higher without the penalty.
C13_Witness ==
    /\ Scored
    /\ positions # << >>
    /\ \E x \in Yods :
          /\ patterns[x].pattern_strength_score > 0
          /\ patterns[x].pattern_strength_score < 1000

====
